---- MODULE Spec2Model ----
(***************************************************************************)
(* Model of the GraphQL transport of go-buxclient                          *)
(* (src/transports/graphql.go): the TransportGraphQL configuration, the    *)
(* seven operations, the canonical body encoder getBodyString and the      *)
(* sign/identify decision signGraphQLRequest.                              *)
(*                                                                         *)
(* A call is followed through the three points where it touches shared or  *)
(* external state: the operation builds and authenticates its request      *)
(* (reading the credentials and the sign flag), the wire client's Run      *)
(* answers, and the operation reads the debug flag and returns.            *)
(***************************************************************************)
EXTENDS Integers, Sequences, FiniteSets, TLC

VARIABLES
    adminXPriv,   \* g.adminXPriv
    debug,        \* g.debug
    signRequest,  \* g.signRequest
    xPriv,        \* g.xPriv
    xPub,         \* g.xPub
    calls,        \* one record per caller: the call it has in progress
    encQuery,     \* encoder harness: the operation string
    encA,         \* encoder harness: a Go map, as its insertion sequence
    encB,         \* encoder harness: the same pairs, inserted in another order
    encOut        \* encoder harness: the bodies produced from encA and encB

vars == <<adminXPriv, debug, signRequest, xPriv, xPub, calls,
          encQuery, encA, encB, encOut>>

cfgVars == <<adminXPriv, debug, signRequest, xPriv, xPub>>
encVars == <<encQuery, encA, encB, encOut>>

----------------------------------------------------------------------------
(* Bounds and value domains *)

MaxVars == 3          \* pairs in a variables mapping of the encoder harness
MaxRecipients == 1    \* length of a recipients slice

Nil == "nil"

\* Keys. A nil pointer, a usable private key, or a key createSignature rejects.
AdminKeys == {"adminKey", "invalidAdminKey"}
UserKeys == {"xprv"}
InvalidKeys == {"invalidAdminKey"}

\* *bux.Metadata inputs: nil, a serialisable map, a map holding a value
\* encoding/json cannot marshal (a channel, a func).
Unserializable == "unserializable"
MetadataInputs == {Nil, "md", Unserializable}
ConditionsInputs == {Nil, "cond"}
EmptyMetadata == "emptyMetadata"

WireErrors == {"errNetwork", "errCancelled"}
ErrAdminKey == "ErrAdminKey"
ErrMarshal == "errMarshal"
ErrSignature == "errSignature"

Callers == {"c1"}

----------------------------------------------------------------------------
(* Go maps and the canonical body *)

\* A map[string]interface{}: nil or not, and its pairs in insertion order.
NilMap == [isNil |-> TRUE, kv |-> <<>>]
MakeMap(pairs) == [isNil |-> FALSE, kv |-> pairs]

Keys(m) == {m.kv[i][1] : i \in 1..Len(m.kv)}
Lookup(m, k) == LET i == CHOOSE j \in 1..Len(m.kv) : m.kv[j][1] = k IN m.kv[i][2]

\* Byte order of the variable names that occur.
KeyOrder == <<"conditions", "metadata", "outputs", "transactionConfig",
              "transaction_config">>
KeyRank(k) == CHOOSE i \in 1..Len(KeyOrder) : KeyOrder[i] = k

RECURSIVE InsertSorted(_, _)
InsertSorted(p, s) ==
    IF s = <<>> THEN <<p>>
    ELSE IF KeyRank(p[1]) <= KeyRank(Head(s)[1]) THEN <<p>> \o s
    ELSE <<Head(s)>> \o InsertSorted(p, Tail(s))

RECURSIVE SortByKey(_)
SortByKey(s) == IF s = <<>> THEN <<>> ELSE InsertSorted(Head(s), SortByKey(Tail(s)))

\* json.Marshal fails on a value it cannot encode.
Marshalable(m) ==
    \A i \in 1..Len(m.kv) :
        ~(m.kv[i][1] \in {"metadata", "conditions"} /\ m.kv[i][2] = Unserializable)

NoBody == [query |-> <<>>, isNull |-> TRUE, variables |-> <<>>]

\* The encoder without the key sort: pairs written in insertion order.
getBodyStringInsertionOrder(reqBody, variables) ==
    IF ~Marshalable(variables)
    THEN [err |-> ErrMarshal, body |-> NoBody]
    ELSE [err |-> Nil,
          body |-> [query |-> reqBody, isNull |-> variables.isNil,
                    variables |-> variables.kv]]

\* getBodyString: {"query": reqBody, "variables": variables} through
\* json.Marshal, which writes a map's keys in sorted order and a nil map as null.
getBodyString(reqBody, variables) ==
    IF ~Marshalable(variables)
    THEN [err |-> ErrMarshal, body |-> NoBody]
    ELSE [err |-> Nil,
          body |-> [query |-> reqBody, isNull |-> variables.isNil,
                    variables |-> SortByKey(variables.kv)]]

----------------------------------------------------------------------------
(* Request headers and authentication *)

NoSignature == [present |-> FALSE, key |-> Nil, body |-> NoBody]
NoHeader == [auth_xpub |-> "", signature |-> NoSignature]

\* addSignature(&req.Header, key, bodyString): fails on an absent or invalid
\* key, else attaches the signature header set computed from key and body.
addSignature(header, key, bodyString) ==
    IF key = Nil \/ key \in InvalidKeys
    THEN [err |-> ErrSignature, header |-> header]
    ELSE [err |-> Nil,
          header |-> [header EXCEPT !.signature =
                         [present |-> TRUE, key |-> key, body |-> bodyString]]]

\* processMetadata: a nil metadata becomes an empty one.
processMetadata(metadata) == IF metadata = Nil THEN EmptyMetadata ELSE metadata

\* The transport as the operation reads it.
Transport == [adminXPriv |-> adminXPriv, signRequest |-> signRequest,
              xPriv |-> xPriv, xPub |-> xPub]
NoTransport == [adminXPriv |-> Nil, signRequest |-> FALSE, xPriv |-> Nil, xPub |-> Nil]

\* The sign decision leaving the identity header on a signed request.
signGraphQLRequestKeepsXpub(g, header, reqBody, variables) ==
    IF g.signRequest
    THEN LET b == getBodyString(reqBody, variables) IN
         IF b.err # Nil THEN [err |-> b.err, header |-> header]
         ELSE addSignature([header EXCEPT !.auth_xpub = g.xPub], g.xPriv, b.body)
    ELSE [err |-> Nil, header |-> [header EXCEPT !.auth_xpub = g.xPub]]

\* The sign decision preferring the admin key when one is set.
signGraphQLRequestAdminKey(g, header, reqBody, variables) ==
    IF g.signRequest
    THEN LET b == getBodyString(reqBody, variables) IN
         IF b.err # Nil THEN [err |-> b.err, header |-> header]
         ELSE addSignature(header,
                           IF g.adminXPriv # Nil THEN g.adminXPriv ELSE g.xPriv, b.body)
    ELSE [err |-> Nil, header |-> [header EXCEPT !.auth_xpub = g.xPub]]

signGraphQLRequest(g, header, reqBody, variables) ==
    IF g.signRequest
    THEN LET b == getBodyString(reqBody, variables) IN
         IF b.err # Nil THEN [err |-> b.err, header |-> header]
         ELSE addSignature(header, g.xPriv, b.body)
    ELSE [err |-> Nil, header |-> [header EXCEPT !.auth_xpub = g.xPub]]

----------------------------------------------------------------------------
(* The operation documents, as token sequences *)

graphqlDraftTransactionFields == <<"{", "draftTransactionFields", "}">>

RegisterXpubBody(rawXPub) ==
    <<"mutation", "(", "$metadata", "Map", ")", "{", "xpub", "(", "xpub:", rawXPub,
      "metadata:", "$metadata", ")", "{", "id", "}", "}">>

GetDestinationBody ==
    <<"mutation", "(", "$metadata", "Map", ")", "{", "destination", "(",
      "metadata:", "$metadata", ")", "{", "destinationFields", "}", "}">>

DraftTransactionBody ==
    <<"mutation", "(", "$transactionConfig", "TransactionConfigInput!", ",",
      "$metadata", "Map", ")", "{", "new_transaction", "(",
      "transaction_config:", "$transactionConfig", "metadata:", "$metadata", ")">>
    \o graphqlDraftTransactionFields \o <<"}">>

DraftToRecipientsBody ==
    <<"mutation", "(", "$outputs", "[TransactionOutputInput]!", ",",
      "$metadata", "Map", ")", "{", "new_transaction", "(",
      "transaction_config:", "{", "outputs:", "$outputs",
      "change_number_of_destinations:3", "change_destinations_strategy:random", "}",
      "metadata:", "$metadata", ")">>
    \o graphqlDraftTransactionFields \o <<"}">>

GetTransactionBody(txID) ==
    <<"query", "{", "transaction", "(", "txId:", txID, ")", "{", "id", "}", "}">>

RecordTransactionBody(hex, referenceID) ==
    <<"mutation", "(", "$metadata", "Map", ")", "{", "transaction", "(",
      "hex:", hex, "draft_id:", referenceID, "metadata:", "$metadata", ")",
      "{", "id", "}", "}">>

\* The declarations with metadata written before conditions.
querySignatureMetadataFirst(conditions, metadata) ==
    (IF metadata # Nil THEN <<"(", "$metadata", "Map">> ELSE <<>>)
    \o (IF conditions # Nil
        THEN (IF metadata = Nil THEN <<"(">> ELSE <<",">>) \o <<"$conditions", "Map">>
        ELSE <<")">>)

\* GetTransactions assembles the declarations and the arguments by hand.
querySignature(conditions, metadata) ==
    (IF conditions # Nil THEN <<"(", "$conditions", "Map">> ELSE <<>>)
    \o (IF metadata # Nil
        THEN (IF conditions = Nil THEN <<"(">> ELSE <<",">>) \o <<"$metadata", "Map">>
        ELSE <<")">>)

queryArguments(conditions, metadata) ==
    (IF conditions # Nil THEN <<"conditions:", "$conditions">> ELSE <<>>)
    \o (IF metadata # Nil THEN <<"metadata:", "$metadata">> ELSE <<>>)

GetTransactionsBody(conditions, metadata) ==
    <<"query">> \o querySignature(conditions, metadata)
    \o <<"{", "transactions">> \o queryArguments(conditions, metadata)
    \o <<"{", "transactionFields", "}", "}">>

\* The variables GetTransactions attaches with req.Var, and those it signs.
GetTransactionsReqVars(conditions, metadata) ==
    LET kv == (IF conditions # Nil THEN <<<<"conditions", conditions>>>> ELSE <<>>)
              \o (IF metadata # Nil THEN <<<<"metadata", metadata>>>> ELSE <<>>)
    IN  IF kv = <<>> THEN NilMap ELSE MakeMap(kv)

GetTransactionsVariables(conditions, metadata) ==
    MakeMap((IF conditions # Nil THEN <<<<"conditions", conditions>>>> ELSE <<>>)
            \o (IF metadata # Nil THEN <<<<"metadata", metadata>>>> ELSE <<>>))

\* DraftToRecipients: one output map per recipient.
Recipients ==
    {<<>>} \cup
    { [i \in 1..n |-> [To |-> "alice@example.com", Satoshis |-> "1000", OpReturn |-> Nil]] :
         n \in 1..MaxRecipients }

Outputs(recipients) ==
    [i \in 1..Len(recipients) |->
        [to |-> recipients[i].To, satoshis |-> recipients[i].Satoshis,
         op_return |-> recipients[i].OpReturn]]

----------------------------------------------------------------------------
(* Calls *)

Ops == {"RegisterXpub", "GetDestination", "DraftTransaction", "DraftToRecipients",
        "GetTransaction", "GetTransactions", "RecordTransaction"}

NoWire == [err |-> Nil, payload |-> Nil]
NoOut == [status |-> "none", value |-> Nil, err |-> Nil]

IdleCall ==
    [pc |-> "idle", op |-> "none", g |-> NoTransport, metadata |-> Nil,
     conditions |-> Nil, reqBody |-> <<>>, reqVars |-> NilMap, variables |-> NilMap,
     header |-> NoHeader, runs |-> 0, wire |-> NoWire, dbg |-> FALSE, out |-> NoOut]

Returned(value, err) == [status |-> "returned", value |-> value, err |-> err]
Panicked == [status |-> "panic", value |-> Nil, err |-> Nil]

\* The call once the operation has built and authenticated its request:
\* returned early on an authentication error, else about to call Run.
Prepared(op, g, metadata, conditions, reqBody, reqVars, variables, auth) ==
    [IdleCall EXCEPT
        !.pc = IF auth.err # Nil THEN "done" ELSE "ready",
        !.op = op, !.g = g, !.metadata = metadata, !.conditions = conditions,
        !.reqBody = reqBody, !.reqVars = reqVars, !.variables = variables,
        !.header = auth.header,
        !.out = IF auth.err # Nil THEN Returned(Nil, auth.err) ELSE NoOut]

\* RegisterXpub signs with the admin key, whatever the sign flag says.
RegisterXpubAuth(g, header, reqBody, variables) ==
    LET b == getBodyString(reqBody, variables) IN
    IF b.err # Nil THEN [err |-> b.err, header |-> header]
    ELSE addSignature(header, g.adminXPriv, b.body)

\* Registration without the admin-key check.
RegisterXpubUngated(c, rawXPub, metadata) ==
    /\ calls[c].pc = "idle"
    /\ LET g == Transport
           reqBody == RegisterXpubBody(rawXPub)
           reqVars == MakeMap(<<<<"metadata", processMetadata(metadata)>>>>)
           variables == MakeMap(<<<<"metadata", processMetadata(metadata)>>>>)
       IN  calls' = [calls EXCEPT ![c] =
               Prepared("RegisterXpub", g, metadata, Nil, reqBody, reqVars, variables,
                        RegisterXpubAuth(g, NoHeader, reqBody, variables))]
    /\ UNCHANGED <<cfgVars, encVars>>

\* Registration that forces signing by switching the shared sign flag on.
RegisterXpubForcesSignFlag(c, rawXPub, metadata) ==
    /\ calls[c].pc = "idle"
    /\ LET g == Transport
           reqBody == RegisterXpubBody(rawXPub)
           reqVars == MakeMap(<<<<"metadata", processMetadata(metadata)>>>>)
           variables == MakeMap(<<<<"metadata", processMetadata(metadata)>>>>)
       IN  calls' = [calls EXCEPT ![c] =
               IF g.adminXPriv = Nil
               THEN [IdleCall EXCEPT !.pc = "done", !.op = "RegisterXpub", !.g = g,
                                     !.metadata = metadata,
                                     !.out = Returned(Nil, ErrAdminKey)]
               ELSE Prepared("RegisterXpub", g, metadata, Nil, reqBody, reqVars, variables,
                             RegisterXpubAuth(g, NoHeader, reqBody, variables))]
    /\ signRequest' = TRUE
    /\ UNCHANGED <<adminXPriv, debug, xPriv, xPub, encVars>>

RegisterXpub(c, rawXPub, metadata) ==
    /\ calls[c].pc = "idle"
    /\ LET g == Transport
           reqBody == RegisterXpubBody(rawXPub)
           reqVars == MakeMap(<<<<"metadata", processMetadata(metadata)>>>>)
           variables == MakeMap(<<<<"metadata", processMetadata(metadata)>>>>)
       IN  calls' = [calls EXCEPT ![c] =
               IF g.adminXPriv = Nil
               THEN [IdleCall EXCEPT !.pc = "done", !.op = "RegisterXpub", !.g = g,
                                     !.metadata = metadata,
                                     !.out = Returned(Nil, ErrAdminKey)]
               ELSE Prepared("RegisterXpub", g, metadata, Nil, reqBody, reqVars, variables,
                             RegisterXpubAuth(g, NoHeader, reqBody, variables))]
    /\ UNCHANGED <<cfgVars, encVars>>

GetDestination(c, metadata) ==
    /\ calls[c].pc = "idle"
    /\ LET g == Transport
           reqBody == GetDestinationBody
           reqVars == MakeMap(<<<<"metadata", processMetadata(metadata)>>>>)
           variables == MakeMap(<<<<"metadata", processMetadata(metadata)>>>>)
       IN  calls' = [calls EXCEPT ![c] =
               Prepared("GetDestination", g, metadata, Nil, reqBody, reqVars, variables,
                        signGraphQLRequest(g, NoHeader, reqBody, variables))]
    /\ UNCHANGED <<cfgVars, encVars>>

\* draftTransactionCommon, up to its call of Run.
draftTransactionCommon(op, g, metadata, reqBody, variables, reqVars) ==
    Prepared(op, g, metadata, Nil, reqBody, reqVars, variables,
             signGraphQLRequest(g, NoHeader, reqBody, variables))

DraftTransaction(c, transactionConfig, metadata) ==
    /\ calls[c].pc = "idle"
    /\ LET reqVars == MakeMap(<<<<"transactionConfig", transactionConfig>>,
                                <<"metadata", processMetadata(metadata)>>>>)
           variables == MakeMap(<<<<"transaction_config", transactionConfig>>,
                                  <<"metadata", processMetadata(metadata)>>>>)
       IN  calls' = [calls EXCEPT ![c] =
               draftTransactionCommon("DraftTransaction", Transport, metadata,
                                      DraftTransactionBody, variables, reqVars)]
    /\ UNCHANGED <<cfgVars, encVars>>

DraftToRecipients(c, recipients, metadata) ==
    /\ calls[c].pc = "idle"
    /\ LET outputs == Outputs(recipients)
           reqVars == MakeMap(<<<<"outputs", outputs>>,
                                <<"metadata", processMetadata(metadata)>>>>)
           variables == MakeMap(<<<<"outputs", outputs>>,
                                  <<"metadata", processMetadata(metadata)>>>>)
       IN  calls' = [calls EXCEPT ![c] =
               draftTransactionCommon("DraftToRecipients", Transport, metadata,
                                      DraftToRecipientsBody, variables, reqVars)]
    /\ UNCHANGED <<cfgVars, encVars>>

GetTransaction(c, txID) ==
    /\ calls[c].pc = "idle"
    /\ LET g == Transport
           reqBody == GetTransactionBody(txID)
       IN  calls' = [calls EXCEPT ![c] =
               Prepared("GetTransaction", g, Nil, Nil, reqBody, NilMap, NilMap,
                        signGraphQLRequest(g, NoHeader, reqBody, NilMap))]
    /\ UNCHANGED <<cfgVars, encVars>>

GetTransactions(c, conditions, metadata) ==
    /\ calls[c].pc = "idle"
    /\ LET g == Transport
           reqBody == GetTransactionsBody(conditions, metadata)
           reqVars == GetTransactionsReqVars(conditions, metadata)
           variables == GetTransactionsVariables(conditions, metadata)
       IN  calls' = [calls EXCEPT ![c] =
               Prepared("GetTransactions", g, metadata, conditions, reqBody, reqVars,
                        variables, signGraphQLRequest(g, NoHeader, reqBody, variables))]
    /\ UNCHANGED <<cfgVars, encVars>>

RecordTransaction(c, hex, referenceID, metadata) ==
    /\ calls[c].pc = "idle"
    /\ LET g == Transport
           reqBody == RecordTransactionBody(hex, referenceID)
           reqVars == MakeMap(<<<<"metadata", processMetadata(metadata)>>>>)
           variables == MakeMap(<<<<"metadata", processMetadata(metadata)>>>>)
       IN  calls' = [calls EXCEPT ![c] =
               Prepared("RecordTransaction", g, metadata, Nil, reqBody, reqVars, variables,
                        signGraphQLRequest(g, NoHeader, reqBody, variables))]
    /\ UNCHANGED <<cfgVars, encVars>>

----------------------------------------------------------------------------
(* The wire call and the return *)

WireOutcomes == [err : {Nil} \cup WireErrors, payload : {Nil, "payload"}]

\* g.client.Run(ctx, req, &respData): the wire client answers with an error
\* or not, and leaves respData's pointer nil or set.
Run(c, outcome) ==
    /\ calls[c].pc = "ready"
    /\ calls' = [calls EXCEPT ![c].pc = "ran", ![c].runs = @ + 1, ![c].wire = outcome]
    /\ UNCHANGED <<cfgVars, encVars>>

RegisterXpubResult(wire) ==
    IF wire.err # Nil THEN Returned(Nil, wire.err) ELSE Returned(Nil, Nil)

\* The trace line dereferences the payload: destination.Address.
GetDestinationResult(wire, dbg) ==
    IF wire.err # Nil THEN Returned(Nil, wire.err)
    ELSE IF dbg /\ wire.payload = Nil THEN Panicked
    ELSE Returned(wire.payload, Nil)

\* The trace line prints the pointer with %v.
draftTransactionCommonResult(wire, dbg) ==
    IF wire.err # Nil THEN Returned(Nil, wire.err) ELSE Returned(wire.payload, Nil)

\* GetTransaction handing back what Run left in respData beside the error.
GetTransactionResultPartial(wire, dbg) ==
    IF wire.err # Nil THEN Returned(wire.payload, wire.err)
    ELSE IF dbg /\ wire.payload = Nil THEN Panicked
    ELSE Returned(wire.payload, Nil)

\* The trace line dereferences the payload: transaction.ID.
GetTransactionResult(wire, dbg) ==
    IF wire.err # Nil THEN Returned(Nil, wire.err)
    ELSE IF dbg /\ wire.payload = Nil THEN Panicked
    ELSE Returned(wire.payload, Nil)

\* The trace line prints len(transactions).
GetTransactionsResult(wire, dbg) ==
    IF wire.err # Nil THEN Returned(Nil, wire.err) ELSE Returned(wire.payload, Nil)

\* The trace line dereferences the payload: transaction.ID.
RecordTransactionResult(wire, dbg) ==
    IF wire.err # Nil THEN Returned(Nil, wire.err)
    ELSE IF dbg /\ wire.payload = Nil THEN Panicked
    ELSE Returned(wire.payload, Nil)

Result(op, wire, dbg) ==
    CASE op = "RegisterXpub" -> RegisterXpubResult(wire)
      [] op = "GetDestination" -> GetDestinationResult(wire, dbg)
      [] op \in {"DraftTransaction", "DraftToRecipients"} ->
             draftTransactionCommonResult(wire, dbg)
      [] op = "GetTransaction" -> GetTransactionResult(wire, dbg)
      [] op = "GetTransactions" -> GetTransactionsResult(wire, dbg)
      [] op = "RecordTransaction" -> RecordTransactionResult(wire, dbg)

\* An operation that goes back to Run after a failed attempt.
AfterRunRetry(call, dbg) ==
    IF call.wire.err # Nil
    THEN [call EXCEPT !.pc = "ready"]
    ELSE [call EXCEPT !.pc = "done", !.dbg = dbg, !.out = Result(call.op, call.wire, dbg)]

\* What the operation does once Run has answered: it reads g.debug and returns.
AfterRun(call, dbg) ==
    [call EXCEPT !.pc = "done", !.dbg = dbg, !.out = Result(call.op, call.wire, dbg)]

Complete(c) ==
    /\ calls[c].pc = "ran"
    /\ calls' = [calls EXCEPT ![c] = AfterRun(calls[c], debug)]
    /\ UNCHANGED <<cfgVars, encVars>>

\* The caller takes the result; the request is discarded.
Return(c) ==
    /\ calls[c].pc = "done"
    /\ calls' = [calls EXCEPT ![c] = IdleCall]
    /\ UNCHANGED <<cfgVars, encVars>>

----------------------------------------------------------------------------
(* Setters *)

SetAdminKey(adminKey) ==
    /\ adminXPriv' = adminKey
    /\ UNCHANGED <<debug, signRequest, xPriv, xPub, calls, encVars>>

SetDebug(d) ==
    /\ debug' = d
    /\ UNCHANGED <<adminXPriv, signRequest, xPriv, xPub, calls, encVars>>

SetSignRequest(s) ==
    /\ signRequest' = s
    /\ UNCHANGED <<adminXPriv, debug, xPriv, xPub, calls, encVars>>

----------------------------------------------------------------------------
(* The transport *)

EncIdle ==
    /\ encQuery = <<>>
    /\ encA = NilMap
    /\ encB = NilMap
    /\ encOut = <<>>

Init ==
    /\ adminXPriv = Nil
    /\ debug = FALSE
    /\ signRequest = FALSE
    /\ xPriv \in {Nil} \cup UserKeys
    /\ xPub = "xpub"
    /\ calls = [c \in Callers |-> IdleCall]
    /\ EncIdle

Next ==
    \/ \E k \in {Nil} \cup AdminKeys : SetAdminKey(k)
    \/ \E d \in BOOLEAN : SetDebug(d)
    \/ \E s \in BOOLEAN : SetSignRequest(s)
    \/ \E c \in DOMAIN calls, m \in MetadataInputs : RegisterXpub(c, "rawXPub", m)
    \/ \E c \in DOMAIN calls, m \in MetadataInputs : GetDestination(c, m)
    \/ \E c \in DOMAIN calls, m \in MetadataInputs : DraftTransaction(c, "transactionConfig", m)
    \/ \E c \in DOMAIN calls, r \in Recipients, m \in MetadataInputs :
           DraftToRecipients(c, r, m)
    \/ \E c \in DOMAIN calls : GetTransaction(c, "txID")
    \/ \E c \in DOMAIN calls, cond \in ConditionsInputs, m \in MetadataInputs :
           GetTransactions(c, cond, m)
    \/ \E c \in DOMAIN calls, m \in MetadataInputs :
           RecordTransaction(c, "hex", "referenceID", m)
    \/ \E c \in DOMAIN calls, o \in WireOutcomes : Run(c, o)
    \/ \E c \in DOMAIN calls : Complete(c)
    \/ \E c \in DOMAIN calls : Return(c)

Spec == Init /\ [][Next]_vars

----------------------------------------------------------------------------
(* Concurrent callers on one shared transport. The setters run only while  *)
(* no call is in flight; the operations interleave freely at their three   *)
(* steps.                                                                  *)

ConcCallers == {"c1", "c2"}
ConcWireOutcomes ==
    {[err |-> Nil, payload |-> "payload"], [err |-> Nil, payload |-> Nil],
     [err |-> "errNetwork", payload |-> Nil]}

Quiet == \A c \in DOMAIN calls : calls[c].pc = "idle"

InitConc ==
    /\ adminXPriv = Nil
    /\ debug = FALSE
    /\ signRequest = FALSE
    /\ xPriv \in {Nil} \cup UserKeys
    /\ xPub = "xpub"
    /\ calls = [c \in ConcCallers |-> IdleCall]
    /\ EncIdle

NextConc ==
    \/ \E k \in {Nil, "adminKey"} : Quiet /\ SetAdminKey(k)
    \/ \E d \in BOOLEAN : Quiet /\ SetDebug(d)
    \/ \E s \in BOOLEAN : Quiet /\ SetSignRequest(s)
    \/ \E c \in DOMAIN calls, m \in MetadataInputs : RegisterXpub(c, "rawXPub", m)
    \/ \E c \in DOMAIN calls, m \in MetadataInputs : GetDestination(c, m)
    \/ \E c \in DOMAIN calls, m \in MetadataInputs :
           DraftTransaction(c, "transactionConfig", m)
    \/ \E c \in DOMAIN calls, m \in MetadataInputs : DraftToRecipients(c, <<>>, m)
    \/ \E c \in DOMAIN calls : GetTransaction(c, "txID")
    \/ \E c \in DOMAIN calls, cond \in ConditionsInputs, m \in MetadataInputs :
           GetTransactions(c, cond, m)
    \/ \E c \in DOMAIN calls, m \in MetadataInputs :
           RecordTransaction(c, "hex", "referenceID", m)
    \/ \E c \in DOMAIN calls, o \in ConcWireOutcomes : Run(c, o)
    \/ \E c \in DOMAIN calls : Complete(c)
    \/ \E c \in DOMAIN calls : Return(c)

SpecConc == InitConc /\ [][NextConc]_vars

----------------------------------------------------------------------------
(* The canonical body encoder on its own: two maps holding the same pairs  *)
(* are built in different insertion orders and both are encoded.           *)

EncValues == {"v1", Unserializable}
EncQueries == {GetDestinationBody, GetTransactionBody("txID")}

InsertAt(s, i, p) == SubSeq(s, 1, i - 1) \o <<p>> \o SubSeq(s, i, Len(s))

\* variables[k] = v on both maps; the second map receives it at another place
\* of its insertion history.
EncInsert(k, v, i) ==
    /\ encOut = <<>>
    /\ ~encA.isNil
    /\ k \notin Keys(encA)
    /\ Len(encA.kv) < MaxVars
    /\ i \in 1..(Len(encB.kv) + 1)
    /\ encA' = [encA EXCEPT !.kv = Append(@, <<k, v>>)]
    /\ encB' = [encB EXCEPT !.kv = InsertAt(@, i, <<k, v>>)]
    /\ UNCHANGED <<cfgVars, calls, encQuery, encOut>>

EncEncode(q) ==
    /\ encOut = <<>>
    /\ encQuery' = q
    /\ encOut' = <<getBodyString(q, encA), getBodyString(q, encB)>>
    /\ UNCHANGED <<cfgVars, calls, encA, encB>>

EncReset(m) ==
    /\ encOut # <<>>
    /\ encQuery' = <<>>
    /\ encA' = m
    /\ encB' = m
    /\ encOut' = <<>>
    /\ UNCHANGED <<cfgVars, calls>>

InitEnc ==
    /\ adminXPriv = Nil
    /\ debug = FALSE
    /\ signRequest = FALSE
    /\ xPriv = Nil
    /\ xPub = "xpub"
    /\ calls = [c \in Callers |-> IdleCall]
    /\ encQuery = <<>>
    /\ encA \in {NilMap, MakeMap(<<>>)}
    /\ encB = encA
    /\ encOut = <<>>

NextEnc ==
    \/ \E i \in 1..Len(KeyOrder), v \in EncValues, j \in 1..MaxVars :
           EncInsert(KeyOrder[i], v, j)
    \/ \E q \in EncQueries : EncEncode(q)
    \/ \E m \in {NilMap, MakeMap(<<>>)} : EncReset(m)

SpecEnc == InitEnc /\ [][NextEnc]_vars

----------------------------------------------------------------------------
(* Properties *)

Started(c) == calls[c].pc # "idle"
Outgoing(c) == calls[c].pc \in {"ready", "ran"} \/ calls[c].runs >= 1

\* The key/value pairs of a mapping, compared key by key.
SameMapping(kv, m) ==
    /\ {kv[i][1] : i \in 1..Len(kv)} = Keys(m)
    /\ \A i \in 1..Len(kv) : kv[i][1] \in Keys(m) => kv[i][2] = Lookup(m, kv[i][1])

\* C1: whenever a request carries a signature, the signed canonical body holds
\* the query string of the request and exactly the variables (same names, same
\* values) attached to the request with req.Var.
SignedBodyIsTransmittedBody ==
    \A c \in DOMAIN calls :
        calls[c].header.signature.present =>
            /\ calls[c].header.signature.body.query = calls[c].reqBody
            /\ SameMapping(calls[c].header.signature.body.variables, calls[c].reqVars)

RejectedForAdminKey(c) ==
    /\ calls[c].pc = "done"
    /\ calls[c].out = Returned(Nil, ErrAdminKey)
    /\ calls[c].runs = 0

ReachesWire(c) == calls[c].pc \in {"ready", "ran"} \/ calls[c].runs = 1

\* C3 as stated: RegisterXpub without an admin key returns ErrAdminKey and
\* makes no wire call; with an admin key set the call reaches the wire call.
RegisterXpubAdminGate ==
    \A c \in DOMAIN calls :
        calls[c].op = "RegisterXpub" =>
            IF calls[c].g.adminXPriv = Nil
            THEN RejectedForAdminKey(c)
            ELSE ReachesWire(c)

\* C3: RegisterXpub without an admin key returns ErrAdminKey and makes no wire
\* call, whatever the flags, keys and arguments; with an admin key set it never
\* returns ErrAdminKey, and it reaches the wire call unless encoding the body
\* or signing it fails, in which case that error is returned with no wire call.
RegisterXpubAdminGateUnlessAuthFails ==
    \A c \in DOMAIN calls :
        calls[c].op = "RegisterXpub" =>
            IF calls[c].g.adminXPriv = Nil
            THEN RejectedForAdminKey(c)
            ELSE IF calls[c].metadata # Unserializable
                    /\ calls[c].g.adminXPriv \notin InvalidKeys
            THEN ReachesWire(c)
            ELSE /\ calls[c].pc = "done"
                 /\ calls[c].runs = 0
                 /\ calls[c].out.err \in {ErrMarshal, ErrSignature}

RegistrationReachedWireAfterSetAdminKey ==
    \E c \in DOMAIN calls :
        /\ calls[c].op = "RegisterXpub"
        /\ calls[c].g.adminXPriv \in AdminKeys
        /\ calls[c].runs = 1

\* C4: a signature on a RegisterXpub request is made with the admin private
\* key, a signature on any other request with the user private key xPriv; the
\* admin key signs no other operation and the user key signs no registration.
SigningKeyByOperation ==
    \A c \in DOMAIN calls :
        calls[c].header.signature.present =>
            IF calls[c].op = "RegisterXpub"
            THEN /\ calls[c].header.signature.key = calls[c].g.adminXPriv
                 /\ calls[c].header.signature.key \notin UserKeys
            ELSE /\ calls[c].header.signature.key = calls[c].g.xPriv
                 /\ calls[c].header.signature.key \notin AdminKeys

UserSignedWhileAdminKeySet ==
    \E c \in DOMAIN calls :
        /\ calls[c].op \notin {"none", "RegisterXpub"}
        /\ calls[c].header.signature.present
        /\ calls[c].g.adminXPriv \in AdminKeys
        /\ calls[c].runs = 1

\* C5: a call that went through the wire call completes with the value and
\* error the same call completes with when the debug flag is off.
DebugIsObservabilityOnly ==
    \A c \in DOMAIN calls :
        (calls[c].pc = "done" /\ calls[c].runs >= 1) =>
            calls[c].out = Result(calls[c].op, calls[c].wire, FALSE)

SingleObjectOps == {"GetDestination", "DraftTransaction", "DraftToRecipients",
                    "GetTransaction", "RecordTransaction"}

\* C6: no single-object operation returns a nil result together with a nil
\* error.
NoErrorSwallowed ==
    \A c \in DOMAIN calls :
        (calls[c].pc = "done" /\ calls[c].op \in SingleObjectOps) =>
            ~(calls[c].out.status = "returned"
              /\ calls[c].out.value = Nil /\ calls[c].out.err = Nil)

\* C7: when Run returned an error the operation returns that same error and a
\* nil result, whatever Run left in the response.
WireErrorPropagatedVerbatim ==
    \A c \in DOMAIN calls :
        (calls[c].pc = "done" /\ calls[c].runs >= 1 /\ calls[c].wire.err # Nil) =>
            calls[c].out = Returned(Nil, calls[c].wire.err)

WireErrorWithPartialResponse ==
    \E c \in DOMAIN calls :
        /\ calls[c].pc = "done"
        /\ calls[c].op = "GetTransaction"
        /\ calls[c].wire.err \in WireErrors
        /\ calls[c].wire.payload # Nil

\* C8: within one operation Run is invoked at most once, also after a failed
\* attempt.
AtMostOneAttempt ==
    \A c \in DOMAIN calls : calls[c].runs <= 1

FailedAttemptReturned ==
    \E c \in DOMAIN calls :
        /\ calls[c].pc = "done"
        /\ calls[c].runs = 1
        /\ calls[c].wire.err \in WireErrors

\* C9: two mappings holding the same key/value pairs, inserted in different
\* orders, are encoded to identical canonical bodies (or both fail to encode).
CanonicalEncodingDeterminism ==
    encOut # <<>> => encOut[1] = encOut[2]

EncodedFromDifferentInsertionOrders ==
    /\ encOut # <<>>
    /\ Len(encA.kv) >= 2
    /\ encA.kv # encB.kv
    /\ encOut[1].err = Nil

VarToken(k) == IF k = "conditions" THEN "$conditions" ELSE "$metadata"
VarTokens == {"$conditions", "$metadata"}
FirstBrace(q) == CHOOSE i \in 1..Len(q) : q[i] = "{" /\ \A j \in 1..(i - 1) : q[j] # "{"
Declared(q) == {q[i] : i \in 1..(FirstBrace(q) - 1)} \cap VarTokens
Bound(q) == {q[i] : i \in (FirstBrace(q) + 1)..Len(q)} \cap VarTokens
Position(q, t) == CHOOSE i \in 1..Len(q) : q[i] = t /\ \A j \in 1..(i - 1) : q[j] # t

NonNilInputs(c) ==
    (IF calls[c].conditions # Nil THEN {"conditions"} ELSE {})
    \cup (IF calls[c].metadata # Nil THEN {"metadata"} ELSE {})
InputValue(c, k) == IF k = "conditions" THEN calls[c].conditions ELSE calls[c].metadata

\* C10: in a GetTransactions call the variables declared in the query, the
\* arguments bound on the transactions field, the variables attached to the
\* request and the variables signed are exactly the non-nil inputs among
\* conditions and metadata (none at all when both are nil), and conditions is
\* declared before metadata when both are given.
GetTransactionsFilters ==
    \A c \in DOMAIN calls :
        calls[c].op = "GetTransactions" =>
            /\ Declared(calls[c].reqBody) = {VarToken(k) : k \in NonNilInputs(c)}
            /\ Bound(calls[c].reqBody) = {VarToken(k) : k \in NonNilInputs(c)}
            /\ Keys(calls[c].reqVars) = NonNilInputs(c)
            /\ \A k \in NonNilInputs(c) : Lookup(calls[c].reqVars, k) = InputValue(c, k)
            /\ Keys(calls[c].variables) = NonNilInputs(c)
            /\ \A k \in NonNilInputs(c) : Lookup(calls[c].variables, k) = InputValue(c, k)
            /\ calls[c].header.signature.present =>
                   SameMapping(calls[c].header.signature.body.variables, calls[c].variables)
            /\ NonNilInputs(c) = {"conditions", "metadata"} =>
                   Position(calls[c].reqBody, "$conditions")
                       < Position(calls[c].reqBody, "$metadata")

GetTransactionsBothFiltersSigned ==
    \E c \in DOMAIN calls :
        /\ calls[c].op = "GetTransactions"
        /\ calls[c].conditions # Nil
        /\ calls[c].metadata # Nil
        /\ calls[c].header.signature.present
        /\ calls[c].runs = 1

\* The authentication the call's own request gets from the transport as it is.
AloneAuth(c) ==
    IF calls[c].op = "RegisterXpub"
    THEN RegisterXpubAuth(Transport, NoHeader, calls[c].reqBody, calls[c].variables)
    ELSE signGraphQLRequest(Transport, NoHeader, calls[c].reqBody, calls[c].variables)

MetadataOps == {"RegisterXpub", "GetDestination", "DraftTransaction",
                "DraftToRecipients", "RecordTransaction"}

\* C11: with setters confined to moments when no call is in flight, every call
\* under every interleaving sees the transport unchanged since it began, and
\* its request (query, variables, headers), its early error and its returned
\* result are those its own inputs and that transport determine, whatever the
\* other caller does in between.
ConcurrentCallsAsAlone ==
    \A c \in DOMAIN calls :
        Started(c) =>
            /\ calls[c].g = Transport
            /\ IF calls[c].op = "RegisterXpub" /\ adminXPriv = Nil
               THEN RejectedForAdminKey(c)
               ELSE /\ calls[c].header = AloneAuth(c).header
                    /\ AloneAuth(c).err # Nil =>
                           /\ calls[c].pc = "done"
                           /\ calls[c].runs = 0
                           /\ calls[c].out = Returned(Nil, AloneAuth(c).err)
                    /\ AloneAuth(c).err = Nil => ReachesWire(c)
                    /\ calls[c].op \in MetadataOps =>
                           Lookup(calls[c].reqVars, "metadata")
                               = processMetadata(calls[c].metadata)
                    /\ calls[c].op = "GetTransactions" =>
                           /\ calls[c].reqBody =
                                  GetTransactionsBody(calls[c].conditions, calls[c].metadata)
                           /\ calls[c].reqVars =
                                  GetTransactionsReqVars(calls[c].conditions, calls[c].metadata)
            /\ (calls[c].pc = "done" /\ calls[c].runs >= 1) =>
                   /\ calls[c].dbg = debug
                   /\ calls[c].out = Result(calls[c].op, calls[c].wire, debug)

TwoCallsInterleaved ==
    \E c \in DOMAIN calls, d \in DOMAIN calls :
        /\ c # d
        /\ calls[c].pc = "done"
        /\ calls[c].runs = 1
        /\ calls[d].pc = "ran"
        /\ calls[c].op # calls[d].op
        /\ calls[c].header.signature.present
        /\ ~calls[d].header.signature.present

\* The tokens of a query before its first brace: the variable declarations.
QueryHeader(q) == SubSeq(q, 1, FirstBrace(q) - 1)
Places(h, toks) == {i \in 1..Len(h) : h[i] \in toks}

WellFormedDeclarations(h) ==
    /\ (Places(h, {"("}) # {}) <=> (Places(h, VarTokens) # {})
    /\ Cardinality(Places(h, {"("})) = Cardinality(Places(h, {")"}))
    /\ \A j \in Places(h, {")"}) :
           /\ \E i \in Places(h, {"("}) : i < j
           /\ \A k \in Places(h, VarTokens) : k < j

\* C12: the declaration list of a GetTransactions query opens a parenthesis
\* exactly when a variable is declared, closes each opening parenthesis once,
\* after the last declaration, and has no closing parenthesis without an
\* opening one.
GetTransactionsDeclarationsWellFormed ==
    \A c \in DOMAIN calls :
        calls[c].op = "GetTransactions" =>
            WellFormedDeclarations(QueryHeader(calls[c].reqBody))

====
